---- MODULE Spec2Model ----
(***************************************************************************)
(* Model of the capital stack allocator, optimize_stack (src/main.py), and *)
(* of the schema it works on (src/schemas.py).                             *)
(*                                                                         *)
(* Python floats are modelled as exact rationals <<n, d>> in lowest terms  *)
(* with d > 0.  The inputs are drawn from dyadic shares and costs, so the  *)
(* products share * tdc the code forms are exact in both arithmetics; the  *)
(* code's own tolerances (1e-6, 1e-9) are kept as written.                 *)
(***************************************************************************)
EXTENDS Integers, Sequences, FiniteSets, TLC

(***************************************************************************)
(* Exact rational arithmetic standing for float arithmetic.                *)
(***************************************************************************)
Abs(n) == IF n < 0 THEN -n ELSE n

RECURSIVE GCD(_, _)
GCD(a, b) == IF b = 0 THEN a ELSE GCD(b, a % b)

R(n, d) ==
    LET s == IF d < 0 THEN -1 ELSE 1
        g == GCD(Abs(n), Abs(d))
    IN  <<(s * n) \div g, (s * d) \div g>>

Zero == <<0, 1>>
RAdd(x, y) == R(x[1] * y[2] + y[1] * x[2], x[2] * y[2])
RNeg(x) == <<-x[1], x[2]>>
RSub(x, y) == RAdd(x, RNeg(y))
RMul(x, y) ==
    LET a == R(x[1], y[2])
        b == R(y[1], x[2])
    IN  <<a[1] * b[1], a[2] * b[2]>>
RDiv(x, y) == RMul(x, R(y[2], y[1]))
RLt(x, y) == x[1] * y[2] < y[1] * x[2]
RLe(x, y) == x[1] * y[2] <= y[1] * x[2]
RMin(x, y) == IF RLe(x, y) THEN x ELSE y
RMax(x, y) == IF RLt(x, y) THEN y ELSE x
RAbs(x) == <<Abs(x[1]), x[2]>>

\* float("inf"), and None for an optional float: no rational has denominator 0
Inf == <<1, 0>>
NoneR == <<0, 0>>

\* The tolerances of the code: 1e-6 (funding, aggregation) and 1e-9 (entry match,
\* ratio guard).  The comparisons are exact: n/d <= 1/T iff n <= d \div T.
TolDen == 1000000
MatchDen == 1000000000
LeTol(x) == x[1] <= x[2] \div TolDen
GtTol(x) == ~LeTol(x)
LtMatch(x) == x[1] <= (x[2] - 1) \div MatchDen

(***************************************************************************)
(* Inputs: a Project and a list of CapitalOption, within the field ranges  *)
(* of src/schemas.py.  Names are not unique across the catalogue, as the   *)
(* schema allows.                                                          *)
(***************************************************************************)
MaxOpts == 3

Opt(name, kind, cost, points, lo, hi, ltc, enforce) ==
    [name |-> name, kind |-> kind, annual_cost |-> cost, points |-> points,
     min_share |-> lo, max_share |-> hi, max_ltc |-> ltc, enforce_dscr |-> enforce]

Catalogue ==
    { Opt("Senior",  "debt",   R(1, 16), R(1, 16), R(1, 4), R(3, 4), NoneR,   TRUE),
      Opt("Senior",  "debt",   R(3, 32), Zero,     R(1, 4), R(1, 2), NoneR,   FALSE),
      Opt("Loan",    "debt",   R(1, 16), Zero,     Zero,    R(1, 1), NoneR,   TRUE),
      Opt("Mezz",    "mezz",   R(1, 8),  R(1, 8),  Zero,    R(1, 2), R(1, 4), TRUE),
      Opt("Pref",    "pref",   R(3, 16), Zero,     Zero,    R(1, 2), NoneR,   FALSE),
      Opt("Equity",  "equity", R(1, 4),  Zero,     Zero,    R(1, 1), NoneR,   FALSE),
      Opt("Sponsor", "equity", R(1, 4),  Zero,     R(1, 4), R(1, 2), R(1, 4), FALSE),
      Opt("Equity",  "mezz",   R(1, 8),  Zero,     Zero,    R(1, 4), NoneR,   TRUE) }

Injective(s) == \A a, b \in DOMAIN s : a # b => s[a] # s[b]

OptionLists ==
    { s \in UNION { [1..n -> Catalogue] : n \in 0..MaxOpts } : Injective(s) }

Projects ==
    { [name |-> "P", tdc |-> R(100, 1), noi |-> R(n, 1), min_dscr |-> R(5, 4),
       max_ltc |-> l, min_equity |-> e] :
        n \in {0, 5, 10}, l \in {R(1, 4), R(3, 4), R(1, 1)}, e \in {R(1, 4), R(1, 2)} }

VARIABLES
    project,            \* the Project of the call
    options,            \* the List[CapitalOption] of the call
    pc,                 \* position in optimize_stack
    sorted_opts,        \* indices into options, in sorted(options, key=eff_cost) order
    remaining,
    allocations,        \* the ledger: <<[opt |-> index into options, amt |-> amount]>>
    i,                  \* position of the fill loop in sorted_opts
    common_equity,      \* index of the first equity option, 0 for None
    total_annual_debt,
    total_debt_amount,
    delta_annual,
    dscr_debts,         \* the snapshot walked by the DSCR correction
    k,                  \* position of the DSCR walk in dscr_debts
    slices,
    wacc,
    outcome,            \* "running", "returned", "http_400", "attribute_error"
    detail,             \* the HTTPException detail
    force_short         \* history: the force-fill met a residual it could not place

vars == <<project, options, pc, sorted_opts, remaining, allocations, i, common_equity,
          total_annual_debt, total_debt_amount, delta_annual, dscr_debts, k, slices,
          wacc, outcome, detail, force_short>>

(***************************************************************************)
(* Helpers of optimize_stack.                                              *)
(***************************************************************************)
\* compute_dscr
compute_dscr(noi, annual_debt_service) ==
    IF annual_debt_service = Zero THEN Inf ELSE RDiv(noi, annual_debt_service)

\* dscr < project.min_dscr, with inf below nothing
DscrBelow(dscr, min_dscr) == dscr # Inf /\ RLt(dscr, min_dscr)

eff_cost(opt) == RAdd(opt.annual_cost, opt.points)

\* sorted(...) is stable: x goes after every element whose key is <= its own
RECURSIVE InsertByKey(_, _, _)
InsertByKey(s, x, key) ==
    IF s = <<>> THEN <<x>>
    ELSE IF RLt(key[x], key[Head(s)]) THEN <<x>> \o s
    ELSE <<Head(s)>> \o InsertByKey(Tail(s), x, key)

RECURSIVE SortByKey(_, _)
SortByKey(n, key) ==
    IF n = 0 THEN <<>> ELSE InsertByKey(SortByKey(n - 1, key), n, key)

SortedOpts(opts) == SortByKey(Len(opts), [j \in DOMAIN opts |-> eff_cost(opts[j])])

IsDebt(opt) == opt.kind \in {"debt", "mezz"}

RECURSIVE SumSeq(_)
SumSeq(s) == IF s = <<>> THEN Zero ELSE RAdd(Head(s), SumSeq(Tail(s)))

\* sum(a for o, a in allocations if o.name == name)
AmountByName(opts, alloc, name) ==
    SumSeq([j \in 1..Len(alloc) |->
              IF opts[alloc[j].opt].name = name THEN alloc[j].amt ELSE Zero])

\* next((o for o in options if o.kind == "equity"), None)
FirstEquity(opts) ==
    LET eq == { j \in DOMAIN opts : opts[j].kind = "equity" }
    IN  IF eq = {} THEN 0 ELSE CHOOSE j \in eq : \A m \in eq : j <= m

\* common_equity.max_share * tdc - sum(a for o, a in allocations if o.name == common_equity.name)
EquitySpace(opts, alloc, ce, tdc) ==
    RSub(RMul(opts[ce].max_share, tdc), AmountByName(opts, alloc, opts[ce].name))

Entry(o, a) == [opt |-> o, amt |-> a]

(***************************************************************************)
(* First pass: respect min_share of each option.                           *)
(***************************************************************************)
\* the amount one option is seeded with, given what is left
SeedUse(opt, tdc, rem) ==
    LET min_amt == RMax(RMul(opt.min_share, tdc), Zero)
        max_cap == RMul(opt.max_share, tdc)
    IN  IF RLt(Zero, min_amt) THEN RMin(RMin(min_amt, max_cap), rem) ELSE Zero

RECURSIVE SeedPass(_, _, _, _, _)
SeedPass(opts, order, tdc, alloc, rem) ==
    IF order = <<>> THEN [alloc |-> alloc, rem |-> rem]
    ELSE LET o == Head(order)
             use == SeedUse(opts[o], tdc, rem)
         IN  IF RLt(Zero, use)
             THEN SeedPass(opts, Tail(order), tdc, Append(alloc, Entry(o, use)),
                           RSub(rem, use))
             ELSE SeedPass(opts, Tail(order), tdc, alloc, rem)

(***************************************************************************)
(* Second pass: fill remaining with cheapest options within constraints.   *)
(***************************************************************************)
\* addable: the room under max_share and, when set, under the option's max_ltc
Addable(opts, alloc, opt, tdc) ==
    LET current_amt == AmountByName(opts, alloc, opt.name)
        under_share == RSub(RMul(opt.max_share, tdc), current_amt)
    IN  IF opt.max_ltc # NoneR
        THEN RMin(under_share, RSub(RMul(opt.max_ltc, tdc), current_amt))
        ELSE under_share

FillAdd(opts, alloc, opt, tdc, rem) == RMin(Addable(opts, alloc, opt, tdc), rem)

Init ==
    /\ project \in Projects
    /\ options \in OptionLists
    /\ pc = "seed"
    /\ sorted_opts = <<>>
    /\ remaining = Zero
    /\ allocations = <<>>
    /\ i = 0
    /\ common_equity = 0
    /\ total_annual_debt = Zero
    /\ total_debt_amount = Zero
    /\ delta_annual = Zero
    /\ dscr_debts = <<>>
    /\ k = 0
    /\ slices = <<>>
    /\ wacc = Zero
    /\ outcome = "running"
    /\ detail = ""
    /\ force_short = FALSE

\* lines 35-54: tdc, the ranking and the min_share pass
SeedMinShares ==
    /\ pc = "seed"
    /\ LET order == SortedOpts(options)
           st == SeedPass(options, order, project.tdc, <<>>, project.tdc)
       IN  /\ sorted_opts' = order
           /\ allocations' = st.alloc
           /\ remaining' = st.rem
    /\ i' = 1
    /\ pc' = "fill"
    /\ UNCHANGED <<project, options, common_equity, total_annual_debt,
                   total_debt_amount, delta_annual, dscr_debts, k, slices, wacc,
                   outcome, detail,
                   force_short>>

\* lines 57-68, one iteration of the loop
FillStep ==
    /\ pc = "fill"
    /\ i <= Len(sorted_opts)
    /\ GtTol(remaining)
    /\ LET o == sorted_opts[i]
           add == FillAdd(options, allocations, options[o], project.tdc, remaining)
       IN  IF GtTol(add)
           THEN /\ allocations' = Append(allocations, Entry(o, add))
                /\ remaining' = RSub(remaining, add)
           ELSE UNCHANGED <<allocations, remaining>>
    /\ i' = i + 1
    /\ UNCHANGED <<project, options, pc, sorted_opts, common_equity, total_annual_debt,
                   total_debt_amount, delta_annual, dscr_debts, k, slices, wacc,
                   outcome, detail,
                   force_short>>

\* lines 57-59: the loop ends, by exhaustion or by the break
FillExit ==
    /\ pc = "fill"
    /\ ~(i <= Len(sorted_opts) /\ GtTol(remaining))
    /\ pc' = "equity_min"
    /\ UNCHANGED <<project, options, sorted_opts, remaining, allocations, i,
                   common_equity, total_annual_debt, total_debt_amount, delta_annual,
                   dscr_debts, k, slices, wacc, outcome, detail,
                   force_short>>

(***************************************************************************)
(* Ensure equity minimum, then force equity to fill what is left.          *)
(***************************************************************************)
\* lines 74-78: the equity the floor correction adds (<= 0: nothing is added)
EquityAdj(opts, alloc, ce, proj) ==
    LET current_equity == AmountByName(opts, alloc, opts[ce].name)
        min_equity_amt == RMax(RMul(proj.min_equity, proj.tdc),
                               RMul(opts[ce].min_share, proj.tdc))
        needed == RSub(min_equity_amt, current_equity)
        space == RSub(RMul(opts[ce].max_share, proj.tdc), current_equity)
    IN  IF RLt(current_equity, min_equity_amt) THEN RMin(needed, space) ELSE Zero

\* lines 71-81
EnsureEquityMin ==
    /\ pc = "equity_min"
    /\ LET ce == FirstEquity(options)
           adj == IF ce = 0 THEN Zero ELSE EquityAdj(options, allocations, ce, project)
       IN  /\ common_equity' = ce
           /\ IF RLt(Zero, adj)
              THEN /\ allocations' = Append(allocations, Entry(ce, adj))
                   /\ remaining' = RSub(remaining, adj)
              ELSE UNCHANGED <<allocations, remaining>>
    /\ pc' = "force"
    /\ UNCHANGED <<project, options, sorted_opts, i, total_annual_debt,
                   total_debt_amount, delta_annual, dscr_debts, k, slices, wacc,
                   outcome, detail,
                   force_short>>

\* raise HTTPException(status_code=400, detail=msg)
Raise(kind, msg) ==
    /\ pc' = "done"
    /\ outcome' = kind
    /\ detail' = msg

\* lines 84-88: a residual above the tolerance with no equity option, or with less
\* equity headroom than the residual
ForceShort(opts, alloc, ce, tdc, rem) ==
    GtTol(rem) /\ (ce = 0 \/ RLt(EquitySpace(opts, alloc, ce, tdc), rem))

\* lines 84-92
ForceFill ==
    /\ pc = "force"
    /\ force_short' = ForceShort(options, allocations, common_equity, project.tdc,
                                 remaining)
    /\ IF LeTol(remaining)
       THEN /\ pc' = "ltc"
            /\ UNCHANGED <<allocations, remaining, outcome, detail>>
       ELSE IF common_equity = 0
       THEN /\ Raise("http_400", "No equity option to complete the stack")
            /\ UNCHANGED <<allocations, remaining>>
       ELSE LET add == RMin(EquitySpace(options, allocations, common_equity,
                                        project.tdc), remaining)
            IN  IF RLe(add, Zero)
                THEN /\ Raise("http_400",
                              "Constraints too tight to fully fund the stack")
                     /\ UNCHANGED <<allocations, remaining>>
                ELSE /\ allocations' = Append(allocations, Entry(common_equity, add))
                     /\ remaining' = RSub(remaining, add)
                     /\ pc' = "ltc"
                     /\ UNCHANGED <<outcome, detail>>
    /\ UNCHANGED <<project, options, sorted_opts, i, common_equity, total_annual_debt,
                   total_debt_amount, delta_annual, dscr_debts, k, slices, wacc>>

(***************************************************************************)
(* DSCR and LTC constraints: adjust if needed by capping debt.             *)
(***************************************************************************)
\* lines 95-99: total_annual_debt
EnforcedService(opts, alloc) ==
    SumSeq([j \in 1..Len(alloc) |->
              IF IsDebt(opts[alloc[j].opt]) /\ opts[alloc[j].opt].enforce_dscr
              THEN RMul(alloc[j].amt, opts[alloc[j].opt].annual_cost) ELSE Zero])

\* lines 96-101: total_debt_amount
DebtAmount(opts, alloc) ==
    SumSeq([j \in 1..Len(alloc) |->
              IF IsDebt(opts[alloc[j].opt]) THEN alloc[j].amt ELSE Zero])

\* line 107
ReduceRatio(total, cap) ==
    RDiv(RSub(total, cap), IF LtMatch(RAbs(total)) THEN R(1, MatchDen) ELSE total)

\* a reduction that shrinks the senior debt only and forgets the mezzanine
ReduceDebtSeniorOnly(opts, alloc, ratio) ==
    [j \in 1..Len(alloc) |->
        IF opts[alloc[j].opt].kind = "debt"
        THEN Entry(alloc[j].opt, RSub(alloc[j].amt, RMul(alloc[j].amt, ratio)))
        ELSE alloc[j]]

\* lines 108-111: every debt/mezz entry shrunk by the ratio
ReduceDebt(opts, alloc, ratio) ==
    [j \in 1..Len(alloc) |->
        IF IsDebt(opts[alloc[j].opt])
        THEN Entry(alloc[j].opt, RSub(alloc[j].amt, RMul(alloc[j].amt, ratio)))
        ELSE alloc[j]]

\* lines 108-112: what the reduction frees
FreedByRatio(opts, alloc, ratio) ==
    SumSeq([j \in 1..Len(alloc) |->
              IF IsDebt(opts[alloc[j].opt]) THEN RMul(alloc[j].amt, ratio) ELSE Zero])

\* lines 95-119
EnforceLTC ==
    /\ pc = "ltc"
    /\ total_annual_debt' = EnforcedService(options, allocations)
    /\ LET total == DebtAmount(options, allocations)
           cap == RMul(project.max_ltc, project.tdc)
       IN  /\ total_debt_amount' = total
           /\ IF project.max_ltc # NoneR /\ RLt(cap, total)
              THEN LET ratio == ReduceRatio(total, cap)
                       reduced == ReduceDebt(options, allocations, ratio)
                       rem == RAdd(remaining, FreedByRatio(options, allocations, ratio))
                   IN  IF common_equity = 0
                       THEN /\ allocations' = reduced
                            /\ remaining' = rem
                            /\ Raise("attribute_error",
                                     "'NoneType' object has no attribute 'max_share'")
                       ELSE LET add == RMin(EquitySpace(options, reduced,
                                                        common_equity, project.tdc),
                                            rem)
                            IN  IF GtTol(RSub(rem, add))
                                THEN /\ allocations' = reduced
                                     /\ remaining' = rem
                                     /\ Raise("http_400",
                                         "Equity caps too tight to replace reduced debt")
                                ELSE /\ allocations' =
                                          Append(reduced, Entry(common_equity, add))
                                     /\ remaining' = RSub(rem, add)
                                     /\ pc' = "dscr"
                                     /\ UNCHANGED <<outcome, detail>>
              ELSE /\ pc' = "dscr"
                   /\ UNCHANGED <<allocations, remaining, outcome, detail>>
    /\ UNCHANGED <<project, options, sorted_opts, i, common_equity, delta_annual,
                   dscr_debts, k, slices, wacc,
                   force_short>>

\* line 128, the comprehension: the DSCR-enforced debt/mezz entries, in ledger order
RECURSIVE EnforcedEntries(_, _)
EnforcedEntries(opts, alloc) ==
    IF alloc = <<>> THEN <<>>
    ELSE IF IsDebt(opts[Head(alloc).opt]) /\ opts[Head(alloc).opt].enforce_dscr
    THEN <<Head(alloc)>> \o EnforcedEntries(opts, Tail(alloc))
    ELSE EnforcedEntries(opts, Tail(alloc))

\* line 128: those entries, highest annual_cost first
DscrDebts(opts, alloc) ==
    LET picked == EnforcedEntries(opts, alloc)
        key == [m \in 1..Len(picked) |-> RNeg(opts[picked[m].opt].annual_cost)]
        order == SortByKey(Len(picked), key)
    IN  [m \in 1..Len(picked) |-> picked[order[m]]]

\* line 126
DeltaAnnual(total_annual, required_annual) ==
    RMax(RSub(total_annual, required_annual), Zero)

\* lines 122-128
DscrStart ==
    /\ pc = "dscr"
    /\ IF DscrBelow(compute_dscr(project.noi, total_annual_debt), project.min_dscr)
       THEN /\ delta_annual' =
                  DeltaAnnual(total_annual_debt, RDiv(project.noi, project.min_dscr))
            /\ dscr_debts' = DscrDebts(options, allocations)
            /\ k' = 1
            /\ pc' = "dscr_walk"
       ELSE /\ pc' = "aggregate"
            /\ UNCHANGED <<delta_annual, dscr_debts, k>>
    /\ UNCHANGED <<project, options, sorted_opts, remaining, allocations, i,
                   common_equity, total_annual_debt, total_debt_amount, slices, wacc,
                   outcome, detail,
                   force_short>>

\* lines 136-139: the first ledger entry of that name within 1e-9 of the amount
\* (0: no entry matches)
MatchEntry(opts, alloc, name, a) ==
    LET hits == { j \in 1..Len(alloc) :
                    /\ opts[alloc[j].opt].name = name
                    /\ LtMatch(RAbs(RSub(alloc[j].amt, a))) }
    IN  IF hits = {} THEN 0 ELSE CHOOSE j \in hits : \A m \in hits : j <= m

\* lines 132-134
TakeAnnual(opt, a, delta) == RMin(RMul(a, opt.annual_cost), delta)
TakePrincipal(opt, take) == RDiv(take, opt.annual_cost)

\* lines 129-141, one iteration of the walk
DscrStep ==
    /\ pc = "dscr_walk"
    /\ k <= Len(dscr_debts)
    /\ GtTol(delta_annual)
    /\ LET o == options[dscr_debts[k].opt]
           a == dscr_debts[k].amt
           take == TakeAnnual(o, a, delta_annual)
           take_principal == TakePrincipal(o, take)
           j == MatchEntry(options, allocations, o.name, a)
       IN  /\ allocations' =
                 IF j = 0 THEN allocations
                 ELSE [allocations EXCEPT ![j].amt = RSub(@, take_principal)]
           /\ delta_annual' = RSub(delta_annual, take)
           /\ remaining' = RAdd(remaining, take_principal)
    /\ k' = k + 1
    /\ UNCHANGED <<project, options, pc, sorted_opts, i, common_equity,
                   total_annual_debt, total_debt_amount, dscr_debts, slices, wacc,
                   outcome, detail,
                   force_short>>

\* lines 142-148: the walk is over; fill with equity
DscrFill ==
    /\ pc = "dscr_walk"
    /\ ~(k <= Len(dscr_debts) /\ GtTol(delta_annual))
    /\ IF common_equity = 0
       THEN /\ Raise("attribute_error",
                     "'NoneType' object has no attribute 'max_share'")
            /\ UNCHANGED <<allocations, remaining>>
       ELSE LET add == RMin(EquitySpace(options, allocations, common_equity,
                                        project.tdc), remaining)
            IN  IF GtTol(RSub(remaining, add))
                THEN /\ Raise("http_400", "Equity caps too tight to hit DSCR")
                     /\ UNCHANGED <<allocations, remaining>>
                ELSE /\ allocations' = Append(allocations, Entry(common_equity, add))
                     /\ remaining' = RSub(remaining, add)
                     /\ pc' = "aggregate"
                     /\ UNCHANGED <<outcome, detail>>
    /\ UNCHANGED <<project, options, sorted_opts, i, common_equity, total_annual_debt,
                   total_debt_amount, delta_annual, dscr_debts, k, slices, wacc,
                   force_short>>

(***************************************************************************)
(* Aggregate by option.                                                    *)
(***************************************************************************)
SliceKey(opt) == <<opt.name, opt.kind, opt.annual_cost>>

\* lines 151-157: agg, as the sequence of its items in insertion order
RECURSIVE AggFrom(_, _, _)
AggFrom(opts, alloc, agg) ==
    IF alloc = <<>> THEN agg
    ELSE LET e == Head(alloc)
             key == SliceKey(opts[e.opt])
             at == { m \in 1..Len(agg) : agg[m].key = key }
         IN  IF LeTol(e.amt) THEN AggFrom(opts, Tail(alloc), agg)
             ELSE IF at = {}
             THEN AggFrom(opts, Tail(alloc), Append(agg, [key |-> key, amount |-> e.amt]))
             ELSE AggFrom(opts, Tail(alloc),
                          [agg EXCEPT ![CHOOSE m \in at : TRUE].amount = RAdd(@, e.amt)])

\* lines 159-164
Slices(opts, alloc, tdc) ==
    LET agg == AggFrom(opts, alloc, <<>>)
    IN  [m \in 1..Len(agg) |->
           [option_name |-> agg[m].key[1], kind |-> agg[m].key[2],
            amount |-> agg[m].amount, share |-> RDiv(agg[m].amount, tdc),
            annual_cost |-> agg[m].key[3]]]

\* lines 160-166
Wacc(sl, tdc) ==
    RDiv(SumSeq([m \in 1..Len(sl) |-> RMul(sl[m].amount, sl[m].annual_cost)]), tdc)

\* lines 150-174
Aggregate ==
    /\ pc = "aggregate"
    /\ slices' = Slices(options, allocations, project.tdc)
    /\ wacc' = Wacc(slices', project.tdc)
    /\ outcome' = "returned"
    /\ pc' = "done"
    /\ UNCHANGED <<project, options, sorted_opts, remaining, allocations, i,
                   common_equity, total_annual_debt, total_debt_amount, delta_annual,
                   dscr_debts, k, detail,
                   force_short>>

Next ==
    \/ SeedMinShares
    \/ FillStep
    \/ FillExit
    \/ EnsureEquityMin
    \/ ForceFill
    \/ EnforceLTC
    \/ DscrStart
    \/ DscrStep
    \/ DscrFill
    \/ Aggregate

Spec == Init /\ [][Next]_vars
(***************************************************************************)
(* Properties of the returned stack and of the passes.                     *)
(***************************************************************************)
Returned == outcome = "returned"
Cap == RMul(project.max_ltc, project.tdc)
Required == RDiv(project.noi, project.min_dscr)
DistinctNames == \A a, b \in DOMAIN options : a # b => options[a].name # options[b].name

\* the slice a given option is aggregated into
SliceOf(opt, sl) ==
    /\ sl.option_name = opt.name
    /\ sl.kind = opt.kind
    /\ sl.annual_cost = opt.annual_cost

SliceTotal == SumSeq([m \in 1..Len(slices) |-> slices[m].amount])

DebtSliceTotal ==
    SumSeq([m \in 1..Len(slices) |->
              IF slices[m].kind \in {"debt", "mezz"} THEN slices[m].amount ELSE Zero])

\* debt service of the returned slices of the DSCR-enforced debt/mezz instruments
EnforcedSliceService ==
    SumSeq([m \in 1..Len(slices) |->
              IF \E j \in DOMAIN options :
                    /\ SliceOf(options[j], slices[m])
                    /\ options[j].kind \in {"debt", "mezz"}
                    /\ options[j].enforce_dscr
              THEN RMul(slices[m].amount, slices[m].annual_cost) ELSE Zero])

EquitySliceAmount ==
    SumSeq([m \in 1..Len(slices) |->
              IF SliceOf(options[common_equity], slices[m])
              THEN slices[m].amount ELSE Zero])

EquityFloor ==
    RMul(RMax(project.min_equity, options[common_equity].min_share), project.tdc)

\* C1: a returned stack funds tdc exactly: the slice amounts sum to project.tdc
\* within 1e-6, neither over- nor under-funded.
C1_FundsTdc ==
    Returned => LeTol(RAbs(RSub(SliceTotal, project.tdc)))

\* C2: in a returned stack the debt and mezz slices total at most
\* project.max_ltc * tdc + 1e-6.
C2_LtcCap ==
    Returned => LeTol(RSub(DebtSliceTotal, Cap))

\* C2 witness: a stack is returned after the LTC correction shrank debt of both
\* kinds down to the cap.
C2_Witness ==
    /\ Returned
    /\ RLt(Cap, total_debt_amount)
    /\ DebtSliceTotal = Cap
    /\ \E m \in 1..Len(slices) : slices[m].kind = "mezz"
    /\ \E m \in 1..Len(slices) : slices[m].kind = "debt"

\* C3: in a returned stack the debt service of the DSCR-enforced debt/mezz
\* instruments keeps dscr(noi, service) >= min_dscr, i.e. service is at most
\* noi / min_dscr, up to 1e-6.
C3_DscrCovenant ==
    Returned => LeTol(RSub(EnforcedSliceService, Required))

\* C4: when a stack is returned and the first equity instrument's max_share * tdc
\* reaches the floor max(project.min_equity, min_share) * tdc, its returned amount
\* is at least that floor, up to 1e-6.
C4_EquityFloor ==
    (/\ Returned
     /\ common_equity # 0
     /\ RLe(EquityFloor, RMul(options[common_equity].max_share, project.tdc)))
    => LeTol(RSub(EquityFloor, EquitySliceAmount))

\* C5: when a stack is returned for options with pairwise distinct names, every
\* slice's amount is at most max_share * tdc of its instrument.
C5_ShareCaps ==
    (Returned /\ DistinctNames) =>
        \A m \in 1..Len(slices) : \A j \in DOMAIN options :
            options[j].name = slices[m].option_name =>
                RLe(slices[m].amount, RMul(options[j].max_share, project.tdc))

\* C6: when the force-fill meets a residual above 1e-6 with no equity instrument or
\* with less equity headroom than the residual, no stack is returned and the call
\* ends in a funding error.
C6_ShortForceFillFails ==
    (force_short /\ pc = "done") => outcome = "http_400"

\* C7: a call that returns no stack ends in a funding error (HTTP 400), never in
\* another kind of failure.
C7_OnlyFundingErrors ==
    pc = "done" => outcome \in {"returned", "http_400"}

\* C8: when the DSCR correction starts, the annual debt service it sets out to
\* remove is max(S - noi/min_dscr, 0), S being the enforced debt service of the
\* ledger as it stands then (after the LTC correction).
C8_ExcessFromCurrentLedger ==
    (pc = "dscr_walk" /\ k = 1) =>
        delta_annual = RMax(RSub(EnforcedService(options, allocations), Required), Zero)

IsEnforcedEntry(e) ==
    /\ options[e.opt].kind \in {"debt", "mezz"}
    /\ options[e.opt].enforce_dscr

\* C9: a step of the DSCR walk changes the amount only of a DSCR-enforced debt/mezz
\* entry, only once every enforced entry of strictly higher annual_cost is down to
\* zero, and by the annual service removed divided by the entry's annual_cost.
C9_ShedStep ==
    (pc = "dscr_walk" /\ pc' = "dscr_walk" /\ Len(allocations') = Len(allocations))
    => \A j \in 1..Len(allocations) :
          allocations'[j] # allocations[j] =>
             /\ IsEnforcedEntry(allocations[j])
             /\ \A m \in 1..Len(allocations) :
                   (/\ IsEnforcedEntry(allocations[m])
                    /\ RLt(options[allocations[j].opt].annual_cost,
                           options[allocations[m].opt].annual_cost))
                   => LeTol(RAbs(allocations[m].amt))
             /\ RSub(allocations[j].amt, allocations'[j].amt) =
                   RDiv(RSub(delta_annual, delta_annual'),
                        options[allocations[j].opt].annual_cost)

C9_ExpensiveFirst == [][C9_ShedStep]_vars

\* the ranking key of the instrument ranked at position j, what the ledger holds
\* for it, and its headroom under max_share and, when set, its own max_ltc
C10_Key(j) == RAdd(options[sorted_opts[j]].annual_cost, options[sorted_opts[j]].points)

C10_Held(j) ==
    SumSeq([m \in 1..Len(allocations) |->
              IF allocations[m].opt = sorted_opts[j] THEN allocations[m].amt ELSE Zero])

C10_Headroom(j) ==
    LET opt == options[sorted_opts[j]]
        share_room == RSub(RMul(opt.max_share, project.tdc), C10_Held(j))
        ltc_room == RSub(RMul(opt.max_ltc, project.tdc), C10_Held(j))
    IN  IF opt.max_ltc = NoneR THEN share_room ELSE RMin(share_room, ltc_room)

C10_FillStep ==
    pc = "fill" =>
       \* every instrument is ranked once, in ascending annual_cost + points
       /\ Len(sorted_opts) = Len(options)
       /\ \A a, b \in DOMAIN sorted_opts :
             a < b => /\ sorted_opts[a] # sorted_opts[b]
                      /\ RLe(C10_Key(a), C10_Key(b))
       \* the instrument that receives a fill is the one at position i, and all
       \* ranked before it are at their caps
       /\ allocations' # allocations =>
             /\ allocations' = Append(allocations, allocations'[Len(allocations')])
             /\ allocations'[Len(allocations')].opt = sorted_opts[i]
             /\ \A j \in 1..(i - 1) : LeTol(C10_Headroom(j))
       \* the pass ends funded or with every instrument at its cap
       /\ pc' # "fill" =>
             \/ LeTol(remaining)
             \/ \A j \in DOMAIN sorted_opts : LeTol(C10_Headroom(j))

\* C10: the fill pass visits the instruments in ascending annual_cost + points; an
\* instrument receives a fill only if every instrument ranked before it has no
\* headroom above 1e-6 under max_share and, when set, its own max_ltc; the pass
\* ends with remaining <= 1e-6 or with every instrument at its cap.
C10_CheapestFirst == [][C10_FillStep]_vars
====
